---- MODULE Spec2Model ----
(***************************************************************************)
(* Model of src/main.cpp: the numerical-integration strategies             *)
(* (integrateCrit, integrateMutex, integrateArr, integrateArrAlign,        *)
(* integrateReduction, integratePS, integrateAtomic) and the benchmark      *)
(* driver (runExperiment, showExperimentResults).                           *)
(*                                                                         *)
(* Arithmetic is exact: a sample f(a + i*dx) with dx = (b-a)/STEPS is kept  *)
(* as the integer numerator of the value over STEPS^2, and the returned     *)
(* result*dx as the numerator over STEPS^3.                                 *)
(***************************************************************************)
EXTENDS Integers, Sequences, FiniteSets, TLC

\* ------------------------------------------------------------------ bounds
\* omp_get_num_procs(): the hardware parallelism P of the machine.
MaxProcs == 3
\* The largest sample count STEPS that is explored (the source fixes 10^8).
MaxSteps == 4
\* Elapsed wall-clock times are drawn from 1..MaxTime clock ticks.
MaxTime == 2
\* A loop that never advances is followed for MaxVisits evaluations of a sample.
MaxVisits == 2
\* An allocation returns one of the first MaxBase suitably aligned addresses.
MaxBase == 2
\* The largest argument FibonacciNew is called with (30 in runExperimentFib).
MaxFib == 5
\* The largest array length randomize_arr_fs is called with.
MaxLen == 3
\* The width the uint64_t arithmetic of the randomizer is carried out with.
WordBits == 10

\* ------------------------------------------------------- program constants
\* #define B 1
B == 1
\* #define A -1
A == 0 - B
\* #define CACHE_LINE 64u
CACHE_LINE == 64
\* struct partialSumT { alignas(64) double val; }
PartialSumAlign == 64
\* sizeof(double)
SizeofDouble == 8

Strategies == {"Crit", "Mutex", "Arr", "ArrAlign", "Reduction", "PS", "Atomic"}
OmpStrategies == {"Crit", "Arr", "ArrAlign", "Reduction"}
SlotStrategies == {"Arr", "ArrAlign", "PS"}
LockStrategies == {"Crit", "Mutex"}
\* The strategies that create std::threads.
ThreadStrategies == {"Mutex", "PS", "Atomic"}

Workers == 0 .. (MaxProcs - 1)
\* The value of a variable that has been declared and not yet assigned.
Uninit == 0 - 1

VARIABLES
    I,          \* the strategy handed to showExperimentResults
    STEPS,      \* the sample count
    numThreads, \* the worker count held by set_num_threads / get_num_threads
    dpc,        \* showExperimentResults: position
    dT,         \* showExperimentResults: the loop variable T (1 for the first run)
    T1,         \* showExperimentResults: the baseline time
    R,          \* the ExperimentResult of the last run
    rows,       \* the rows printed so far
    mpc,        \* the calling thread's position inside the strategy
    T,          \* the strategy's variable T
    team,       \* the number of workers of the current run
    tl,         \* the spawn loop's variable t
    threads,    \* the vector of spawned threads (their worker ids)
    jl,         \* the join loop's position in threads
    rl,         \* the read-back loop's variable i
    result,     \* the strategy's variable result
    accum,      \* the slot buffer (accum / vec), a sequence; slot t is accum[t+1]
    mtx,        \* the workers holding the mutex / inside the critical section
    singleDone, \* the single region of the current parallel region was executed
    wpc,        \* per worker: position
    wi,         \* per worker: the loop variable i
    wR,         \* per worker: the private sum R
    wtmp,       \* per worker: the value loaded by result += R
    visits,     \* history: how often each index was evaluated in the current run
    started,    \* history: how often each worker id was started in the current run
    ran,        \* history: the worker count each run of the sweep was entered with
    wild,       \* history: an access outside the slot buffer's storage happened
    allocFailed,\* history: the allocation of the slot buffer failed in this run
    base,       \* the byte address of the slot buffer (0: no buffer)
    wcount,     \* history: per worker, the loop iterations made in the current run
    rmain,      \* randomize_arr_fs: the calling thread's position
    rn,         \* randomize_arr_fs: the array length n
    rV,         \* randomize_arr_fs: the array V; V[i] is rV[i+1], Uninit while unwritten
    rT,         \* randomize_arr_fs: the shared variable T
    rLUTA,      \* randomize_arr_fs: the shared variable LUTA
    rLUTB,      \* randomize_arr_fs: the shared variable LUTB
    rsingle,    \* randomize_arr_fs: the single region was executed
    rpc,        \* randomize_arr_fs: per worker, position
    ri,         \* randomize_arr_fs: per worker, the loop variable i
    rprev,      \* randomize_arr_fs: per worker, the variable prev
    rret,       \* randomize_arr_fs: the returned mean, as << sum, n >>
    getBCalls,  \* history: the sizes getB was called with
    fn,         \* FibonacciNew: the argument of the outermost call
    ftask,      \* FibonacciNew: per call, its position, n, x1, x2 and result
    fresult     \* runExperimentFib: the variable result

\* The state of the integration strategies and of showExperimentResults.
intVars == << I, STEPS, numThreads, dpc, dT, T1, R, rows, mpc, T, team, tl,
              threads, jl, rl, result, accum, mtx, singleDone, wpc, wi, wR, wtmp,
              visits, started, ran, wild, allocFailed, base, wcount >>

\* The state of the sibling experiments.
randVars == << rmain, rn, rV, rT, rLUTA, rLUTB, rsingle, rpc, ri, rprev, rret,
               getBCalls >>
fibVars == << fn, ftask, fresult >>
sideVars == << randVars, fibVars >>

vars == << intVars, sideVars >>


\* ----------------------------------------------------------- pure functions
\* double f(double x) { return x * x; }
f(x) == x * x

\* The argument i*dx + a of the i-th sample, as a numerator over STEPS.
SampleArg(i) == i * (B - A) + A * STEPS

\* result * dx, as a numerator over STEPS^3.
TimesDx(r) == r * (B - A)

\* integrateDefault: the single-threaded loop over i = 0 .. STEPS-1.
RECURSIVE DefaultLoop(_, _)
DefaultLoop(i, res) ==
    IF i < STEPS THEN DefaultLoop(i + 1, res + f(SampleArg(i))) ELSE res

integrateDefault == TimesDx(DefaultLoop(0, 0))

\* set_num_threads / get_num_threads / omp_get_num_procs.
get_num_threads == numThreads
omp_get_num_procs == MaxProcs

\* The size of the team an OpenMP parallel region forks.
omp_team_size == numThreads

\* omp_get_num_threads() inside a parallel region: the size of its team.
omp_get_num_threads == team

\* Mutant of TeamSizeRead: the number of processors taken for the team size.
TeamSizeRead_NumProcs == omp_get_num_procs

\* What a member of a parallel region reads as T: omp_get_num_threads() in
\* integrateArrAlign, get_num_threads() in integrateCrit and integrateArr.
TeamSizeRead == IF I = "ArrAlign" THEN omp_get_num_threads ELSE get_num_threads

RECURSIVE Gcd(_, _)
Gcd(x, y) == IF y = 0 THEN x ELSE Gcd(y, x % y)

\* The quotient x / y of two times, as a fraction in lowest terms.
Quotient(x, y) == << x \div Gcd(x, y), y \div Gcd(x, y) >>

\* The static schedule of "omp parallel for" over 0 .. STEPS-1: worker t of n
\* gets the contiguous chunk ChunkLo(t, n) .. ChunkLo(t + 1, n) - 1.
ChunkLo(t, n) ==
    LET q == STEPS \div n
        r == STEPS % n
    IN  IF t < r THEN t * (q + 1) ELSE r * (q + 1) + (t - r) * q

\* Mutant of LoopStride: i += T + 1 in place of i += T.
LoopStride_OffByOne == IF I = "Reduction" THEN 1 ELSE T + 1

\* Mutant of LoopStride: the loop advances by 2 * T.
LoopStride_Double == IF I = "Reduction" THEN 1 ELSE 2 * T

\* The stride and the bound of worker w's loop.
LoopStride == IF I = "Reduction" THEN 1 ELSE T
LoopBound(w) == IF I = "Reduction" THEN ChunkLo(w + 1, team) ELSE STEPS

Team == 0 .. (team - 1)

ZeroSlots(n) == [k \in 1 .. n |-> 0]

\* ----------------------------------------------------------- slot layout
\* n rounded up to a multiple of a.
AlignUp(n, a) == ((n + a - 1) \div a) * a

\* Mutant of Sizeof_partialSumT: the struct without its alignas(64).
Sizeof_partialSumT_NoPad == SizeofDouble

\* sizeof(partialSumT): one double, padded to the struct's alignment.
Sizeof_partialSumT == AlignUp(SizeofDouble, PartialSumAlign)

\* The size of one slot: double (integrateArr) or partialSumT.
SlotSize == IF I = "Arr" THEN SizeofDouble ELSE Sizeof_partialSumT

\* The alignment of the buffer: calloc (suitable for double),
\* aligned_alloc(CACHE_LINE, ...), vector<partialSumT>'s allocator.
AllocAlign ==
    IF I = "Arr" THEN SizeofDouble
    ELSE IF I = "ArrAlign" THEN CACHE_LINE
    ELSE PartialSumAlign

\* The addresses a successful allocation may return.
AllocBases == {AllocAlign * k : k \in 1 .. MaxBase}

\* The byte address of slot t: &accum[t], &vec[t].
SlotAddr(t) == base + t * SlotSize
NoVisits == [k \in 0 .. (MaxSteps - 1) |-> 0]
NoneStarted == [w \in Workers |-> 0]

\* ------------------------------------------------------------------- Init
\* The integration experiment before showExperimentResults' first statement.
InitIntegration ==
    /\ I \in Strategies
    /\ STEPS \in 1 .. MaxSteps
    /\ numThreads \in 1 .. MaxProcs
    /\ dpc = "set"
    /\ dT = 1
    /\ T1 = 0
    /\ R = [result |-> 0, time |-> 0]
    /\ rows = << >>
    /\ mpc = "idle"
    /\ T = Uninit
    /\ team = 0
    /\ tl = 0
    /\ threads = << >>
    /\ jl = 0
    /\ rl = 0
    /\ result = 0
    /\ accum = << >>
    /\ mtx = {}
    /\ singleDone = FALSE
    /\ wpc = [w \in Workers |-> "none"]
    /\ wi = [w \in Workers |-> 0]
    /\ wR = [w \in Workers |-> 0]
    /\ wtmp = [w \in Workers |-> 0]
    /\ visits = NoVisits
    /\ started = NoneStarted
    /\ ran = << >>
    /\ wild = FALSE
    /\ allocFailed = FALSE
    /\ base = 0
    /\ wcount = NoneStarted

\* randomize_arr_fs has not been called.
InitRandIdle ==
    /\ rmain = "idle"
    /\ rn = 0
    /\ rV = << >>
    /\ rT = Uninit
    /\ rLUTA = Uninit
    /\ rLUTB = Uninit
    /\ rsingle = FALSE
    /\ rpc = [w \in Workers |-> "none"]
    /\ ri = [w \in Workers |-> 0]
    /\ rprev = [w \in Workers |-> 0]
    /\ rret = << 0, 0 >>
    /\ getBCalls = {}

\* FibonacciNew has not been called.
InitFibIdle ==
    /\ fn = 0
    /\ ftask = << >>
    /\ fresult = Uninit

Init == InitIntegration /\ InitRandIdle /\ InitFibIdle

\* ------------------------------------------------- showExperimentResults
\* set_num_threads(n).
set_num_threads(n) == numThreads' = n

\* A caller sets the worker count to n before it runs a strategy.
Configure(n) ==
    /\ dpc = "set"
    /\ set_num_threads(n)
    /\ dpc' = "run"
    /\ UNCHANGED << I, STEPS, dT, T1, R, rows, mpc, T, team, tl, threads, jl,
                    rl, result, accum, mtx, singleDone, wpc, wi, wR, wtmp,
                    visits, wcount, started, ran, wild, allocFailed, base,
                    sideVars >>

\* Mutant of SetNumThreads: the worker count is left as it was.
SetNumThreads_Skipped ==
    /\ dpc = "set"
    /\ dpc' = "run"
    /\ UNCHANGED << I, STEPS, numThreads, dT, T1, R, rows, mpc, T, team, tl,
                    threads, jl, rl, result, accum, mtx, singleDone, wpc, wi,
                    wR, wtmp, visits, wcount, started, ran, wild, allocFailed,
                    base, sideVars >>

\* set_num_threads(1) before the first run, set_num_threads(T) in the loop.
SetNumThreads == Configure(dT)

\* The state every strategy starts from: result = 0, no thread, no worker.
EnterStrategy(n) ==
    /\ dpc' = "running"
    /\ team' = n
    /\ ran' = Append(ran, n)
    /\ result' = 0
    /\ threads' = << >>
    /\ jl' = 0
    /\ rl' = 0
    /\ mtx' = {}
    /\ singleDone' = FALSE
    /\ wR' = [w \in Workers |-> 0]
    /\ wtmp' = [w \in Workers |-> 0]
    /\ visits' = NoVisits
    /\ wcount' = NoneStarted
    /\ wild' = FALSE
    /\ allocFailed' = FALSE
    /\ UNCHANGED << I, STEPS, numThreads, dT, T1, R, rows, sideVars >>

\* Mutant of SpawnFirst: the two spawn loops' first ids exchanged.
SpawnFirst_Swapped == IF I = "Mutex" THEN 1 ELSE 0

\* The first thread id the spawn loop creates.
SpawnFirst == IF I = "Mutex" THEN 0 ELSE 1

\* runExperiment calls a strategy that creates std::threads: the declarations
\* before the spawn loop.
CallThreaded ==
    /\ dpc = "run"
    /\ mpc = "idle"
    /\ I \in ThreadStrategies
    /\ EnterStrategy(get_num_threads)
    /\ T' = get_num_threads
    /\ accum' = IF I = "PS" THEN ZeroSlots(get_num_threads) ELSE << >>
    /\ base' \in (IF I = "PS" /\ get_num_threads > 0 THEN AllocBases ELSE {0})
    /\ tl' = SpawnFirst
    /\ mpc' = "spawn"
    /\ wpc' = [w \in Workers |-> "none"]
    /\ wi' = [w \in Workers |-> 0]
    /\ started' = NoneStarted

\* runExperiment calls a strategy with an OpenMP parallel region: the team is
\* forked, every member takes its id t and reaches its first statement.
CallOmp ==
    /\ dpc = "run"
    /\ mpc = "idle"
    /\ I \in OmpStrategies
    /\ EnterStrategy(omp_team_size)
    /\ T' = IF I = "Crit" THEN TeamSizeRead ELSE Uninit
    /\ accum' = << >>
    /\ base' = 0
    /\ tl' = 0
    /\ mpc' = "region"
    /\ wpc' = [w \in Workers |->
                 IF w < omp_team_size
                 THEN (IF I \in {"Arr", "ArrAlign"} THEN "single" ELSE "loop")
                 ELSE "none"]
    /\ wi' = [w \in Workers |->
                 IF w < omp_team_size /\ I \in {"Crit", "Reduction"}
                 THEN (IF I = "Reduction" THEN ChunkLo(w, omp_team_size) ELSE w)
                 ELSE 0]
    /\ started' = [w \in Workers |-> IF w < omp_team_size THEN 1 ELSE 0]

\* A worker begins its loop: R = 0 (or its slot), i = t.
StartWorker(t) ==
    /\ wpc' = [wpc EXCEPT ![t] = "loop"]
    /\ wi' = [wi EXCEPT ![t] = t]
    /\ wR' = [wR EXCEPT ![t] = 0]
    /\ started' = [started EXCEPT ![t] = @ + 1]

\* One iteration of the spawn loop: threads.emplace_back(..., t).
Spawn ==
    /\ mpc = "spawn"
    /\ tl < T
    /\ StartWorker(tl)
    /\ threads' = Append(threads, tl)
    /\ tl' = tl + 1
    /\ UNCHANGED << I, STEPS, numThreads, dpc, dT, T1, R, rows, mpc, T, team,
                    jl, rl, result, accum, mtx, singleDone, wtmp, visits,
                    wcount, ran, wild, allocFailed, base, sideVars >>

\* The spawn loop of integrateMutex ends: the join loop is next.
SpawnEndMutex ==
    /\ mpc = "spawn"
    /\ I = "Mutex"
    /\ ~(tl < T)
    /\ mpc' = "join"
    /\ UNCHANGED << I, STEPS, numThreads, dpc, dT, T1, R, rows, T, team, tl,
                    threads, jl, rl, result, accum, mtx, singleDone, wpc, wi,
                    wR, wtmp, visits, wcount, started, ran, wild, allocFailed,
                    base, sideVars >>

\* The spawn loop of integratePS / integrateAtomic ends: the calling thread
\* runs threadProc(0) / fun(0) itself.
SpawnEndInline ==
    /\ mpc = "spawn"
    /\ I \in {"PS", "Atomic"}
    /\ ~(tl < T)
    /\ mpc' = "inline"
    /\ StartWorker(0)
    /\ UNCHANGED << I, STEPS, numThreads, dpc, dT, T1, R, rows, T, team, tl,
                    threads, jl, rl, result, accum, mtx, singleDone, wtmp,
                    visits, wcount, ran, wild, allocFailed, base, sideVars >>

\* threadProc(0) / fun(0) returns to the calling thread.
InlineReturn ==
    /\ mpc = "inline"
    /\ wpc[0] = "done"
    /\ mpc' = "join"
    /\ UNCHANGED << I, STEPS, numThreads, dpc, dT, T1, R, rows, T, team, tl,
                    threads, jl, rl, result, accum, mtx, singleDone, wpc, wi,
                    wR, wtmp, visits, wcount, started, ran, wild, allocFailed,
                    base, sideVars >>

\* Mutant of Joinable: join returns without waiting for the thread.
Joinable_NoWait(thr) == TRUE

\* thread::join returns once the thread's function has returned.
Joinable(thr) == wpc[thr] = "done"

\* One iteration of the join loop.
Join ==
    /\ mpc = "join"
    /\ jl < Len(threads)
    /\ Joinable(threads[jl + 1])
    /\ jl' = jl + 1
    /\ UNCHANGED << I, STEPS, numThreads, dpc, dT, T1, R, rows, mpc, T, team,
                    tl, threads, rl, result, accum, mtx, singleDone, wpc, wi,
                    wR, wtmp, visits, wcount, started, ran, wild, allocFailed,
                    base, sideVars >>

\* Mutant of RegionBarrier: the region ends without waiting for its members.
RegionBarrier_Missing == TRUE

\* The implicit barrier that ends a parallel region: every member has arrived.
RegionBarrier == \A w \in Team : wpc[w] = "done"

\* The parallel phase is over for the calling thread: the join loop has ended,
\* or the parallel region's closing barrier has been passed.
ParallelPhaseOver ==
    IF I \in OmpStrategies
    THEN mpc = "region" /\ RegionBarrier
    ELSE mpc = "join" /\ ~(jl < Len(threads))

\* ---------------------------------------------------------------- workers
\* The values a read outside any allocated storage may yield.
Garbage == {0, 1}

\* The process has not been killed.
Alive == mpc # "crashed"

\* Slot t of the buffer lies inside the storage allocated for it.
SlotValid(t) == (t + 1) \in DOMAIN accum

\* Mutant of SlotOf: every worker accumulates into slot 0.
SlotOf_Shared(t) == 0

\* The slot worker t accumulates into: accum[t], partialSums[t].
SlotOf(t) == t

\* One iteration of a worker's loop: R += f(i*dx + a), or accum[t] += ...,
\* then i += T.  An access to a slot outside the buffer's storage is undefined:
\* the process is killed there, or the access lands elsewhere and it goes on.
LoopBody(w) ==
    /\ wpc[w] = "loop"
    /\ Alive
    /\ wi[w] < LoopBound(w)
    /\ visits[wi[w]] < MaxVisits
    /\ visits' = [visits EXCEPT ![wi[w]] = @ + 1]
    /\ wcount' = [wcount EXCEPT ![w] = @ + 1]
    /\ wi' = [wi EXCEPT ![w] = @ + LoopStride]
    /\ IF I \in SlotStrategies
       THEN /\ wR' = wR
            /\ IF SlotValid(SlotOf(w))
               THEN /\ accum' = [accum EXCEPT ![SlotOf(w) + 1] =
                                                   @ + f(SampleArg(wi[w]))]
                    /\ UNCHANGED << wild, mpc >>
               ELSE /\ accum' = accum
                    /\ wild' = TRUE
                    /\ mpc' \in {mpc, "crashed"}
       ELSE /\ wR' = [wR EXCEPT ![w] = @ + f(SampleArg(wi[w]))]
            /\ UNCHANGED << accum, wild, mpc >>
    /\ UNCHANGED << I, STEPS, numThreads, dpc, dT, T1, R, rows, T, team, tl,
                    threads, jl, rl, result, mtx, singleDone, wpc, wtmp,
                    started, ran, allocFailed, base, sideVars >>

\* Where a worker goes when its loop condition i < STEPS fails: the end of its
\* function (slot strategies), the lock (critical / scoped_lock), or the add.
AfterLoop ==
    IF I \in SlotStrategies THEN "done"
    ELSE IF I \in LockStrategies THEN "lock"
    ELSE "add"

\* The loop condition fails and the worker leaves its loop.
LoopExit(w) ==
    /\ wpc[w] = "loop"
    /\ Alive
    /\ ~(wi[w] < LoopBound(w))
    /\ wpc' = [wpc EXCEPT ![w] = AfterLoop]
    /\ UNCHANGED << I, STEPS, numThreads, dpc, dT, T1, R, rows, mpc, T, team,
                    tl, threads, jl, rl, result, accum, mtx, singleDone, wi,
                    wR, wtmp, visits, wcount, started, ran, wild, allocFailed,
                    base, sideVars >>

\* Mutant of LockFree: the lock never keeps a worker out.
LockFree_Always == TRUE

\* scoped_lock lck{mtx} / #pragma omp critical lets a worker in when no other
\* worker is inside.
LockFree == mtx = {}

\* The worker enters the critical section.
Acquire(w) ==
    /\ wpc[w] = "lock"
    /\ LockFree
    /\ mtx' = mtx \cup {w}
    /\ wpc' = [wpc EXCEPT ![w] = "locked"]
    /\ UNCHANGED << I, STEPS, numThreads, dpc, dT, T1, R, rows, mpc, T, team,
                    tl, threads, jl, rl, result, accum, singleDone, wi, wR,
                    wtmp, visits, wcount, started, ran, wild, allocFailed,
                    base, sideVars >>

\* result += R inside the critical section: the load of result.
AddLoad(w) ==
    /\ wpc[w] = "locked"
    /\ wtmp' = [wtmp EXCEPT ![w] = result]
    /\ wpc' = [wpc EXCEPT ![w] = "loaded"]
    /\ UNCHANGED << I, STEPS, numThreads, dpc, dT, T1, R, rows, mpc, T, team,
                    tl, threads, jl, rl, result, accum, mtx, singleDone, wi,
                    wR, visits, wcount, started, ran, wild, allocFailed, base,
                    sideVars >>

\* Mutant of AddStore: the lock is not released.
AddStore_NoRelease(w) ==
    /\ wpc[w] = "loaded"
    /\ result' = wtmp[w] + wR[w]
    /\ wpc' = [wpc EXCEPT ![w] = "done"]
    /\ UNCHANGED << I, STEPS, numThreads, dpc, dT, T1, R, rows, mpc, T, team, tl,
                    threads, jl, rl, accum, mtx, singleDone, wi, wR, wtmp, visits,
                    wcount, started, ran, wild, allocFailed, base, sideVars >>

\* result += R inside the critical section: the store, and the release of the
\* lock at the end of the block.
AddStore(w) ==
    /\ wpc[w] = "loaded"
    /\ result' = wtmp[w] + wR[w]
    /\ mtx' = mtx \ {w}
    /\ wpc' = [wpc EXCEPT ![w] = "done"]
    /\ UNCHANGED << I, STEPS, numThreads, dpc, dT, T1, R, rows, mpc, T, team,
                    tl, threads, jl, rl, accum, singleDone, wi, wR, wtmp,
                    visits, wcount, started, ran, wild, allocFailed, base,
                    sideVars >>

\* result += R on std::atomic<double> (integrateAtomic), and the combination of
\* a private copy into result by reduction(+: result): one atomic step.
AtomicAdd(w) ==
    /\ wpc[w] = "add"
    /\ result' = result + wR[w]
    /\ wpc' = [wpc EXCEPT ![w] = "done"]
    /\ UNCHANGED << I, STEPS, numThreads, dpc, dT, T1, R, rows, mpc, T, team,
                    tl, threads, jl, rl, accum, mtx, singleDone, wi, wR, wtmp,
                    visits, wcount, started, ran, wild, allocFailed, base,
                    sideVars >>

\* ------------------------------------------- single region (Arr, ArrAlign)
\* calloc / aligned_alloc + memset of n slots: the zeroed buffer, or no buffer
\* when the allocation fails.
AllocSlots(n, ok) == IF ok THEN ZeroSlots(n) ELSE << >>

\* The single region has been taken by a member (which is executing it or has
\* executed it).
SingleClaimed == singleDone \/ \E v \in Workers : wpc[v] = "insingle"

\* The first member to reach the single region takes it.
SingleEnter(w) ==
    /\ wpc[w] = "single"
    /\ Alive
    /\ ~SingleClaimed
    /\ wpc' = [wpc EXCEPT ![w] = "insingle"]
    /\ UNCHANGED << I, STEPS, numThreads, dpc, dT, T1, R, rows, mpc, T, team,
                    tl, threads, jl, rl, result, accum, mtx, singleDone, wi,
                    wR, wtmp, visits, wcount, started, ran, wild, allocFailed,
                    base, sideVars >>

\* The member that took the single region executes its body:
\* T = get_num_threads(); accum = the allocated buffer.  integrateArrAlign
\* passes the pointer to memset, which is undefined for a null pointer.
Single(w, ok) ==
    /\ wpc[w] = "insingle"
    /\ Alive
    /\ ~singleDone
    /\ singleDone' = TRUE
    /\ T' = TeamSizeRead
    /\ accum' = AllocSlots(TeamSizeRead, ok)
    /\ base' \in (IF ok THEN AllocBases ELSE {0})
    /\ allocFailed' = ~ok
    /\ IF I = "ArrAlign" /\ ~ok
       THEN /\ wild' = TRUE
            /\ mpc' \in {mpc, "crashed"}
       ELSE UNCHANGED << wild, mpc >>
    /\ wpc' = [wpc EXCEPT ![w] = "barrier"]
    /\ UNCHANGED << I, STEPS, numThreads, dpc, dT, T1, R, rows, team, tl,
                    threads, jl, rl, result, mtx, wi, wR, wtmp, visits, wcount,
                    started, ran, sideVars >>

\* Every other member skips the single region and waits at its barrier.
SingleSkip(w) ==
    /\ wpc[w] = "single"
    /\ Alive
    /\ SingleClaimed
    /\ wpc' = [wpc EXCEPT ![w] = "barrier"]
    /\ UNCHANGED << I, STEPS, numThreads, dpc, dT, T1, R, rows, mpc, T, team,
                    tl, threads, jl, rl, result, accum, mtx, singleDone, wi,
                    wR, wtmp, visits, wcount, started, ran, wild, allocFailed,
                    base, sideVars >>

\* Mutant of SingleBarrier: the single region without its barrier (nowait).
SingleBarrier_Missing == TRUE

\* The implicit barrier at the end of the single region: every member of the
\* team has arrived at it (or has already left it).
SingleBarrier == \A v \in Team : wpc[v] \in {"barrier", "loop", "done"}

\* A member leaves the barrier and begins its loop with i = t.
BarrierPass(w) ==
    /\ wpc[w] = "barrier"
    /\ Alive
    /\ SingleBarrier
    /\ wpc' = [wpc EXCEPT ![w] = "loop"]
    /\ wi' = [wi EXCEPT ![w] = w]
    /\ UNCHANGED << I, STEPS, numThreads, dpc, dT, T1, R, rows, mpc, T, team,
                    tl, threads, jl, rl, result, accum, mtx, singleDone, wR,
                    wtmp, visits, wcount, started, ran, wild, allocFailed,
                    base, sideVars >>

\* ------------------------------------------------- read-back and return
\* Mutant of ReadbackBound: the read-back loop stops one slot early.
ReadbackBound_ShortByOne == IF I = "PS" THEN Len(accum) - 1 ELSE T - 1

\* The number of slots the read-back loop visits: T (integrateArr,
\* integrateArrAlign), or the elements of vec (integratePS).
ReadbackBound == IF I = "PS" THEN Len(accum) ELSE T

\* The parallel phase of a slot strategy is over: the read-back loop begins.
ReadbackBegin ==
    /\ I \in SlotStrategies
    /\ ParallelPhaseOver
    /\ mpc' = "readback"
    /\ rl' = 0
    /\ UNCHANGED << I, STEPS, numThreads, dpc, dT, T1, R, rows, T, team, tl,
                    threads, jl, result, accum, mtx, singleDone, wpc, wi, wR,
                    wtmp, visits, wcount, started, ran, wild, allocFailed,
                    base, sideVars >>

\* One iteration of the read-back loop: result += accum[i].  A read outside
\* the buffer's storage is undefined: the process is killed there, or the read
\* yields some value.
ReadbackStep ==
    /\ mpc = "readback"
    /\ rl < ReadbackBound
    /\ IF SlotValid(rl)
       THEN /\ result' = result + accum[rl + 1]
            /\ UNCHANGED << wild, mpc >>
       ELSE /\ result' \in {result + g : g \in Garbage}
            /\ wild' = TRUE
            /\ mpc' \in {mpc, "crashed"}
    /\ rl' = rl + 1
    /\ UNCHANGED << I, STEPS, numThreads, dpc, dT, T1, R, rows, T, team, tl,
                    threads, jl, accum, mtx, singleDone, wpc, wi, wR, wtmp,
                    visits, wcount, started, ran, allocFailed, base, sideVars >>

\* The strategy is ready to return result * dx.
ReadyToReturn ==
    IF I \in SlotStrategies
    THEN mpc = "readback" /\ ~(rl < ReadbackBound)
    ELSE ParallelPhaseOver

\* free(accum) / the destruction of vec, then return result * dx;
\* runExperiment takes the time and returns {result, t1 - t0}.
Return(elapsed) ==
    /\ dpc = "running"
    /\ ReadyToReturn
    /\ R' = [result |-> TimesDx(result), time |-> elapsed]
    /\ mpc' = "idle"
    /\ dpc' = "report"
    /\ accum' = << >>
    /\ base' = 0
    /\ UNCHANGED << I, STEPS, numThreads, dT, T1, rows, T, team, tl, threads,
                    jl, rl, result, mtx, singleDone, wpc, wi, wR, wtmp, visits,
                    wcount, started, ran, wild, allocFailed, sideVars >>

\* Mutant of Baseline: every run overwrites the baseline.
Baseline_Overwritten == R.time

\* The baseline: T1 = R.time after the first run, unchanged afterwards.
Baseline == IF dT = 1 THEN R.time ELSE T1

\* The row printed for a run: result, time, T1 / time.
Row == [result |-> R.result, time |-> R.time, accel |-> Quotient(Baseline, R.time)]

\* The run's row is printed; the loop goes on to the next T while
\* T <= omp_get_num_procs().
Report ==
    /\ dpc = "report"
    /\ T1' = Baseline
    /\ rows' = Append(rows, Row)
    /\ dT' = IF dT = 1 THEN 2 ELSE dT + 1
    /\ dpc' = IF dT' <= omp_get_num_procs THEN "set" ELSE "done"
    /\ UNCHANGED << I, STEPS, numThreads, R, mpc, T, team, tl, threads, jl, rl,
                    result, accum, mtx, singleDone, wpc, wi, wR, wtmp, visits,
                    wcount, started, ran, wild, allocFailed, base, sideVars >>

\* ------------------------------------------------------------------- Next
Next ==
    \/ SetNumThreads
    \/ CallThreaded
    \/ CallOmp
    \/ Spawn
    \/ SpawnEndMutex
    \/ SpawnEndInline
    \/ InlineReturn
    \/ Join
    \/ \E w \in Workers : LoopBody(w)
    \/ \E w \in Workers : LoopExit(w)
    \/ \E w \in Workers : Acquire(w)
    \/ \E w \in Workers : AddLoad(w)
    \/ \E w \in Workers : AddStore(w)
    \/ \E w \in Workers : AtomicAdd(w)
    \/ \E w \in Workers : SingleEnter(w)
    \/ \E w \in Workers : Single(w, TRUE)
    \/ \E w \in Workers : SingleSkip(w)
    \/ \E w \in Workers : BarrierPass(w)
    \/ ReadbackBegin
    \/ ReadbackStep
    \/ \E e \in 1 .. MaxTime : Return(e)
    \/ Report

Spec == Init /\ [][Next]_vars

\* ------------------------------------------------------ fair scheduling
\* The steps of the calling thread.
MainStep ==
    \/ SetNumThreads
    \/ CallThreaded
    \/ CallOmp
    \/ Spawn
    \/ SpawnEndMutex
    \/ SpawnEndInline
    \/ InlineReturn
    \/ Join
    \/ ReadbackBegin
    \/ ReadbackStep
    \/ \E e \in 1 .. MaxTime : Return(e)
    \/ Report

\* The steps of worker w.
WorkerStep(w) ==
    \/ LoopBody(w)
    \/ LoopExit(w)
    \/ Acquire(w)
    \/ AddLoad(w)
    \/ AddStore(w)
    \/ AtomicAdd(w)
    \/ SingleEnter(w)
    \/ Single(w, TRUE)
    \/ SingleSkip(w)
    \/ BarrierPass(w)

\* Every thread that can take a step is eventually scheduled.
FairSpec ==
    /\ Spec
    /\ WF_vars(MainStep)
    /\ \A w \in Workers : WF_vars(WorkerStep(w))

\* ------------------------------------------- a caller that configures any T
\* The thread-based strategies called after set_num_threads(n) for any n from
\* 0 up: the worker count is a process-wide setting open to every caller.
InitAnyCount == Init /\ I \in ThreadStrategies

NextAnyCount ==
    \/ \E n \in 0 .. MaxProcs : Configure(n)
    \/ CallThreaded
    \/ Spawn
    \/ SpawnEndMutex
    \/ SpawnEndInline
    \/ InlineReturn
    \/ Join
    \/ \E w \in Workers : LoopBody(w)
    \/ \E w \in Workers : LoopExit(w)
    \/ \E w \in Workers : Acquire(w)
    \/ \E w \in Workers : AddLoad(w)
    \/ \E w \in Workers : AddStore(w)
    \/ \E w \in Workers : AtomicAdd(w)
    \/ ReadbackBegin
    \/ ReadbackStep
    \/ \E e \in 1 .. MaxTime : Return(e)
    \/ Report

SpecAnyCount == InitAnyCount /\ [][NextAnyCount]_vars

\* ------------------------------------------------ allocations that may fail
\* integrateArr and integrateArrAlign when calloc / aligned_alloc may return
\* a null pointer.
InitAllocFail == Init /\ I \in {"Arr", "ArrAlign"}

NextAllocFail ==
    \/ SetNumThreads
    \/ CallOmp
    \/ \E w \in Workers : LoopBody(w)
    \/ \E w \in Workers : LoopExit(w)
    \/ \E w \in Workers : SingleEnter(w)
    \/ \E w \in Workers, ok \in BOOLEAN : Single(w, ok)
    \/ \E w \in Workers : SingleSkip(w)
    \/ \E w \in Workers : BarrierPass(w)
    \/ ReadbackBegin
    \/ ReadbackStep
    \/ \E e \in 1 .. MaxTime : Return(e)
    \/ Report

SpecAllocFail == InitAllocFail /\ [][NextAllocFail]_vars

\* ------------------------------- randomize_arr_single, randomize_arr_fs
MIN == 1
MAX == 300
SEED == 100
\* The low 32 bits of a = 6364136223846793005, and b.
a_low32 == 1284865837
LcgB == 1

\* uint64_t arithmetic, at the width WordBits.
Word == 2 ^ WordBits
LcgA == a_low32 % Word
Wrap(x) == x % Word

\* V[i] = (cur % (MAX - MIN + 1)) + MIN.
Scale(cur) == (cur % (MAX - MIN + 1)) + MIN

\* The sum of the elements of a sequence, as uint64_t.
RECURSIVE SumSeq(_)
SumSeq(V) == IF V = << >> THEN 0 ELSE Wrap(Head(V) + SumSeq(Tail(V)))

\* randomize_arr_single: the loop from index i with the running prev and V;
\* the result is V and the mean as << sum, n >>.
RECURSIVE SingleLoop(_, _, _, _)
SingleLoop(i, n, prev, V) ==
    IF i < n
    THEN LET cur == Wrap(LcgA * prev + LcgB)
         IN  SingleLoop(i + 1, n, cur, Append(V, Scale(cur)))
    ELSE [V |-> V, ret |-> << SumSeq(V), n >>]

randomize_arr_single(n) == SingleLoop(0, n, SEED, << >>)

\* getA: res = 1; for (i = 1; i <= size; i++) res = res * a.
RECURSIVE getALoop(_, _, _)
getALoop(i, size, res) ==
    IF i <= size THEN getALoop(i + 1, size, Wrap(res * LcgA)) ELSE res

getA(size) == getALoop(1, size, 1)

\* getB: new uint64_t(size) allocates ONE uint64_t (initialised to size).
AccAlloc == 1

\* The indices of acc that getB(size) reads or writes: acc[0] = 1, then
\* acc[i] = acc[j] * a and res += acc[i] for 1 <= i <= size, 0 <= j < i.
getBAccessed(size) ==
    {0} \cup (1 .. size) \cup {j \in 0 .. size : \E i \in 1 .. size : j < i}

\* getB's loops when every acc[i] they touch is storage of its own:
\* the inner loop leaves acc[i] = acc[i-1] * a, and res += acc[i].
RECURSIVE getBLoop(_, _, _, _)
getBLoop(i, size, accPrev, res) ==
    IF i <= size
    THEN LET acci == Wrap(accPrev * LcgA)
         IN  getBLoop(i + 1, size, acci, Wrap(res + acci))
    ELSE res

\* What a call getB(size) can give.  With size = 0 only acc[0] is touched.
\* With size >= 1 the accesses to acc[1..size] are outside the allocation
\* (undefined): they land in memory that keeps the values, or in memory that
\* something else overwrites, or the process is killed.
getB(size) ==
    IF \A i \in getBAccessed(size) : i < AccAlloc
    THEN {[killed |-> FALSE, res |-> getBLoop(1, size, 1, 1)]}
    ELSE {[killed |-> FALSE, res |-> getBLoop(1, size, 1, 1)],
          [killed |-> FALSE, res |-> 0],
          [killed |-> FALSE, res |-> Word - 1],
          [killed |-> TRUE, res |-> 0]}

\* The team of randomize_arr_fs's parallel region.
RandTeam == 0 .. (omp_team_size - 1)
RandAlive == rmain = "parallel"

\* runRandomizeExperiment: result = f(Array, ArrayLength) with the array
\* uninitialised; randomize_arr_fs enters its parallel region.
RandCall(n) ==
    /\ rmain = "idle"
    /\ rmain' = "parallel"
    /\ rn' = n
    /\ rV' = [i \in 1 .. n |-> Uninit]
    /\ rT' = Uninit
    /\ rLUTA' = Uninit
    /\ rLUTB' = Uninit
    /\ rsingle' = FALSE
    /\ rpc' = [w \in Workers |-> IF w \in RandTeam THEN "single" ELSE "none"]
    /\ ri' = [w \in Workers |-> 0]
    /\ rprev' = [w \in Workers |-> 0]
    /\ rret' = << 0, 0 >>
    /\ getBCalls' = {}
    /\ UNCHANGED << intVars, fibVars >>

\* #pragma omp single: T = get_num_threads(); LUTA = getA(T, a);
\* LUTB = getB(T - 1, a) * b.
RandSingle(w) ==
    /\ RandAlive
    /\ rpc[w] = "single"
    /\ ~rsingle
    /\ rsingle' = TRUE
    /\ rT' = get_num_threads
    /\ rLUTA' = getA(get_num_threads)
    /\ getBCalls' = getBCalls \cup {get_num_threads - 1}
    /\ \E out \in getB(get_num_threads - 1) :
          /\ rLUTB' = Wrap(out.res * LcgB)
          /\ rmain' = IF out.killed THEN "killed" ELSE rmain
    /\ rpc' = [rpc EXCEPT ![w] = "barrier"]
    /\ UNCHANGED << intVars, fibVars, rn, rV, ri, rprev, rret >>

\* The members that do not execute the single region.
RandSingleSkip(w) ==
    /\ RandAlive
    /\ rpc[w] = "single"
    /\ rsingle
    /\ rpc' = [rpc EXCEPT ![w] = "barrier"]
    /\ UNCHANGED << intVars, fibVars, rmain, rn, rV, rT, rLUTA, rLUTB, rsingle,
                    ri, rprev, rret, getBCalls >>

\* The barrier at the end of the single region; then prev = SEED and i = t.
RandBarrierPass(w) ==
    /\ RandAlive
    /\ rpc[w] = "barrier"
    /\ \A v \in RandTeam : rpc[v] \in {"barrier", "loop", "done"}
    /\ rpc' = [rpc EXCEPT ![w] = "loop"]
    /\ ri' = [ri EXCEPT ![w] = w]
    /\ rprev' = [rprev EXCEPT ![w] = SEED]
    /\ UNCHANGED << intVars, fibVars, rmain, rn, rV, rT, rLUTA, rLUTB, rsingle,
                    rret, getBCalls >>

\* The state after worker w has stored cur at index i.
RandStore(w, cur) ==
    /\ rV' = [rV EXCEPT ![ri[w] + 1] = Scale(cur)]
    /\ rprev' = [rprev EXCEPT ![w] = cur]
    /\ ri' = [ri EXCEPT ![w] = @ + rT]

\* The first iteration of worker t's loop (i == t):
\* cur = getA(i + 1, a) * prev + getB(i, a) * b.
RandFirst(w) ==
    /\ RandAlive
    /\ rpc[w] = "loop"
    /\ ri[w] < rn
    /\ ri[w] = w
    /\ getBCalls' = getBCalls \cup {ri[w]}
    /\ \E out \in getB(ri[w]) :
          /\ RandStore(w, Wrap(getA(ri[w] + 1) * rprev[w] + out.res * LcgB))
          /\ rmain' = IF out.killed THEN "killed" ELSE rmain
    /\ UNCHANGED << intVars, fibVars, rn, rT, rLUTA, rLUTB, rsingle, rpc,
                    rret >>

\* The later iterations: cur = LUTA * prev + LUTB.
RandJump(w) ==
    /\ RandAlive
    /\ rpc[w] = "loop"
    /\ ri[w] < rn
    /\ ri[w] # w
    /\ RandStore(w, Wrap(rLUTA * rprev[w] + rLUTB))
    /\ UNCHANGED << intVars, fibVars, rmain, rn, rT, rLUTA, rLUTB, rsingle,
                    rpc, rret, getBCalls >>

\* The loop condition i < n fails.
RandLoopExit(w) ==
    /\ RandAlive
    /\ rpc[w] = "loop"
    /\ ri[w] >= rn
    /\ rpc' = [rpc EXCEPT ![w] = "done"]
    /\ UNCHANGED << intVars, fibVars, rmain, rn, rV, rT, rLUTA, rLUTB, rsingle,
                    ri, rprev, rret, getBCalls >>

\* The end of the parallel region, then sum += V[i] for every i and
\* return (double)sum / (double)n.  An element no worker stored is read
\* uninitialised.
RandSum ==
    /\ RandAlive
    /\ \A w \in RandTeam : rpc[w] = "done"
    /\ rmain' = "returned"
    /\ rret' \in (IF \E i \in DOMAIN rV : rV[i] = Uninit
                  THEN {<< s, rn >> : s \in Garbage}
                  ELSE {<< SumSeq(rV), rn >>})
    /\ UNCHANGED << intVars, fibVars, rn, rV, rT, rLUTA, rLUTB, rsingle, rpc,
                    ri, rprev, getBCalls >>

\* runRandomizeExperiment returns; the next call of the sweep may begin.
RandReturn ==
    /\ rmain = "returned"
    /\ rmain' = "idle"
    /\ UNCHANGED << intVars, fibVars, rn, rV, rT, rLUTA, rLUTB, rsingle, rpc,
                    ri, rprev, rret, getBCalls >>

\* The randomizer experiment alone, for every thread count of its sweep.
InitRand == Init /\ I = "Crit" /\ STEPS = 1

NextRand ==
    \/ \E n \in 0 .. MaxLen : RandCall(n)
    \/ \E w \in Workers : RandSingle(w)
    \/ \E w \in Workers : RandSingleSkip(w)
    \/ \E w \in Workers : RandBarrierPass(w)
    \/ \E w \in Workers : RandFirst(w)
    \/ \E w \in Workers : RandJump(w)
    \/ \E w \in Workers : RandLoopExit(w)
    \/ RandSum
    \/ RandReturn

SpecRand == InitRand /\ [][NextRand]_vars

\* ------------------------------------------------ Fibonacci, FibonacciNew
\* unsigned Fibonacci(unsigned n).
RECURSIVE Fibonacci(_)
Fibonacci(n) == IF n <= 2 THEN 1 ELSE Fibonacci(n - 1) + Fibonacci(n - 2)

\* A call of FibonacciNew is named by its path from the outermost call: the
\* call made by the first task of call p is Append(p, 1), by the second
\* Append(p, 2).  The outermost call is << >>.
RootCall == << >>
Parent(p) == SubSeq(p, 1, Len(p) - 1)
NewCall(n) == [pc |-> "start", n |-> n, x1 |-> Uninit, x2 |-> Uninit]

\* The calls after call p has created the task that runs FibonacciNew(n) as
\* call c.
WithTask(p, pc, c, n) ==
    [q \in DOMAIN ftask \cup {c} |->
        IF q = c THEN NewCall(n)
        ELSE IF q = p THEN [ftask[p] EXCEPT !.pc = pc]
        ELSE ftask[q]]

\* The calls after call p has returned v: the call is over and the task that
\* made it stores v in its parent's x1 or x2.
WithReturn(p, v) ==
    [q \in DOMAIN ftask |->
        IF q = p THEN [ftask[p] EXCEPT !.pc = "done"]
        ELSE IF p # RootCall /\ q = Parent(p)
             THEN (IF p[Len(p)] = 1 THEN [ftask[q] EXCEPT !.x1 = v]
                                    ELSE [ftask[q] EXCEPT !.x2 = v])
        ELSE ftask[q]]

\* What a read of an unsigned local gives: its value, or anything while it
\* has not been written.
ReadLocal(x) == IF x = Uninit THEN 0 .. MaxFib ELSE {x}

\* runExperimentFib: result = FibonacciNew(n).
FibCall(n) ==
    /\ DOMAIN ftask = {}
    /\ fn' = n
    /\ ftask' = [q \in {RootCall} |-> NewCall(n)]
    /\ fresult' = Uninit
    /\ UNCHANGED << intVars, randVars >>

\* if (n <= 2) return 1;
FibLeaf(p) ==
    /\ ftask[p].pc = "start"
    /\ ftask[p].n <= 2
    /\ ftask' = WithReturn(p, 1)
    /\ fresult' = IF p = RootCall THEN 1 ELSE fresult
    /\ UNCHANGED << intVars, randVars, fn >>

\* #pragma omp task shared(x1): x1 = FibonacciNew(n - 1) is handed to a task.
FibTask1(p) ==
    /\ ftask[p].pc = "start"
    /\ ftask[p].n > 2
    /\ ftask' = WithTask(p, "task2", Append(p, 1), ftask[p].n - 1)
    /\ UNCHANGED << intVars, randVars, fn, fresult >>

\* #pragma omp task shared(x2): x2 = FibonacciNew(n - 2) is handed to a task.
FibTask2(p) ==
    /\ ftask[p].pc = "task2"
    /\ ftask' = WithTask(p, "taskwait", Append(p, 2), ftask[p].n - 2)
    /\ UNCHANGED << intVars, randVars, fn, fresult >>

\* Mutant of ChildrenDone: the taskwait does not wait.
ChildrenDone_NoWait(p) == TRUE

\* #pragma omp taskwait: both child tasks of call p have completed.
ChildrenDone(p) ==
    /\ ftask[Append(p, 1)].pc = "done"
    /\ ftask[Append(p, 2)].pc = "done"

\* #pragma omp taskwait; return x1 + x2;
FibJoin(p) ==
    /\ ftask[p].pc = "taskwait"
    /\ ChildrenDone(p)
    /\ \E v1 \in ReadLocal(ftask[p].x1), v2 \in ReadLocal(ftask[p].x2) :
          /\ ftask' = WithReturn(p, v1 + v2)
          /\ fresult' = IF p = RootCall THEN v1 + v2 ELSE fresult
    /\ UNCHANGED << intVars, randVars, fn >>

\* runExperimentFib returns; the next call of the sweep may begin.
FibReturn ==
    /\ DOMAIN ftask # {}
    /\ ftask[RootCall].pc = "done"
    /\ ftask' = << >>
    /\ UNCHANGED << intVars, randVars, fn, fresult >>

\* The Fibonacci experiment alone: the integration strategies and the
\* randomizer are not running.
InitFib == Init /\ I = "Crit" /\ STEPS = 1 /\ numThreads = 1

NextFib ==
    \/ \E n \in 1 .. MaxFib : FibCall(n)
    \/ \E p \in DOMAIN ftask : FibLeaf(p)
    \/ \E p \in DOMAIN ftask : FibTask1(p)
    \/ \E p \in DOMAIN ftask : FibTask2(p)
    \/ \E p \in DOMAIN ftask : FibJoin(p)
    \/ FibReturn

SpecFib == InitFib /\ [][NextFib]_vars

\* ================================================================ claims
\* Every member of the team has been started and has finished its function.
AllWorkersDone == \A w \in Team : wpc[w] = "done"

\* What worker w has accumulated: its slot, or its private sum R.
Contribution(w) ==
    IF I \in SlotStrategies
    THEN (IF SlotValid(w) THEN accum[w + 1] ELSE 0)
    ELSE wR[w]

\* The sum of the contributions of the workers in S.
RECURSIVE SumContribution(_)
SumContribution(S) ==
    IF S = {} THEN 0
    ELSE LET x == CHOOSE y \in S : TRUE
         IN  Contribution(x) + SumContribution(S \ {x})

\* C1: in the strategies with the strided loop for (i = t; i < STEPS; i += T),
\* no index is evaluated twice, no index outside 0..STEPS-1 is evaluated, and
\* once all T workers have finished every index of 0..STEPS-1 has been
\* evaluated exactly once.
C1_StridedPartition ==
    (I # "Reduction" /\ dpc = "running") =>
        /\ \A i \in DOMAIN visits : visits[i] <= 1
        /\ \A i \in DOMAIN visits : i >= STEPS => visits[i] = 0
        /\ (team >= 1 /\ AllWorkersDone) =>
               \A i \in 0 .. (STEPS - 1) : visits[i] = 1

\* C1 witness: three samples shared by two workers of integrateAtomic, worker
\* 0 having taken two of them.
C1_Witness ==
    /\ I = "Atomic" /\ T = 2 /\ STEPS = 3 /\ dpc = "running"
    /\ AllWorkersDone
    /\ \A i \in 0 .. 2 : visits[i] = 1
    /\ wi[0] = 4 /\ wi[1] = 3

\* C2: every strategy returns the value of the single-threaded
\* integrateDefault, for every worker count of the sweep.
C2_SameAsDefault ==
    dpc = "report" => R.result = integrateDefault

\* C2 witness: integrateCrit has returned from a run with three workers over
\* three samples.
C2_Witness ==
    /\ dpc = "report" /\ I = "Crit" /\ team = 3 /\ STEPS = 3
    /\ R.result = integrateDefault
    /\ R.result > 0

\* C3: a strategy returns only when every one of its T workers has been
\* started and has finished its loop and its combine step, and the value it
\* returns is dx times the sum of all T workers' contributions.
C3_ReturnAfterAllWorkers ==
    [][ (dpc = "running" /\ dpc' = "report") =>
            /\ team >= 1
            /\ \A w \in Workers :
                  IF w < team THEN wpc[w] = "done" /\ started[w] >= 1
                  ELSE wpc[w] = "none"
            /\ mtx = {}
            /\ R'.result = TimesDx(IF I \in SlotStrategies THEN result
                                   ELSE SumContribution(Team))
            /\ I \in SlotStrategies => result = SumContribution(Team)
      ]_vars

\* C3 witness: integrateMutex has returned from a run with two workers.
C3_Witness ==
    /\ dpc = "report" /\ I = "Mutex" /\ team = 2 /\ STEPS = 3
    /\ wpc[0] = "done" /\ wpc[1] = "done"
    /\ R.result = TimesDx(wR[0] + wR[1])

\* C4: a thread-based strategy starts no worker id twice, and once its spawn
\* loop and the inline call are behind it, it has started exactly the ids
\* 0..T-1: integrateMutex as T threads, integratePS and integrateAtomic as the
\* threads 1..T-1 plus worker 0 on the calling thread.
C4_ExactlyTWorkers ==
    (I \in ThreadStrategies /\ dpc = "running") =>
        /\ \A w \in Workers : started[w] <= 1
        /\ \A k \in 1 .. Len(threads) :
              threads[k] = (IF I = "Mutex" THEN k - 1 ELSE k)
        /\ mpc \in {"join", "readback"} =>
              /\ \A w \in Workers : started[w] = (IF w < T THEN 1 ELSE 0)
              /\ Len(threads) = (IF I = "Mutex" THEN T ELSE T - 1)

\* C4 witness: integratePS with T = 3 has spawned the threads 1 and 2 and run
\* worker 0 itself.
C4_Witness ==
    /\ I = "PS" /\ T = 3 /\ mpc = "join" /\ dpc = "running"
    /\ threads = << 1, 2 >>
    /\ \A w \in 0 .. 2 : started[w] = 1

\* The workers inside the read-modify-write result += R of a locked strategy.
InsideAdd == {w \in Workers : wpc[w] \in {"locked", "loaded"}}

\* C5: with one shared accumulator (integrateCrit, integrateMutex,
\* integrateAtomic) at most one worker is inside result += R at a time, the
\* worker inside is the one holding the lock, and when all workers have
\* combined, result is the sum of the T private sums.
C5_ExclusiveAdd ==
    (I \in {"Crit", "Mutex", "Atomic"} /\ dpc = "running") =>
        /\ Cardinality(InsideAdd) <= 1
        /\ mtx = InsideAdd
        /\ (team >= 1 /\ AllWorkersDone) => result = SumContribution(Team)

\* C5 witness: in integrateMutex one worker has loaded result while the two
\* others wait for the lock.
C5_Witness ==
    /\ I = "Mutex" /\ dpc = "running"
    /\ \E w \in Workers :
          /\ wpc[w] = "loaded"
          /\ \A v \in Workers \ {w} : wpc[v] = "lock" /\ wR[v] > 0

\* C6: in the slot strategies the read-back loop runs only when every worker
\* has made its last write: while the calling thread is in the read-back loop
\* every worker of the team is done, so no slot changes under the loop.
C6_ReadbackAfterBarrier ==
    (I \in SlotStrategies /\ mpc = "readback") =>
        /\ AllWorkersDone
        /\ \A w \in Workers : wpc[w] \in {"done", "none"}
        /\ \A k \in 0 .. (rl - 1) : SlotValid(k)
        /\ result = SumContribution(0 .. (rl - 1))

\* C6 witness: integrateArr with three workers has read two of the three
\* slots.
C6_Witness ==
    /\ I = "Arr" /\ mpc = "readback" /\ team = 3 /\ rl = 2 /\ STEPS = 3
    /\ result = accum[1] + accum[2]
    /\ accum[3] > 0

\* C9: the runs of one sweep are entered with the worker counts 1, 2, 3, ...
\* in this order, one run per count, each with the count the loop set just
\* before it, and the sweep ends after the run for omp_get_num_procs().
C9_SweepOrder ==
    /\ \A k \in 1 .. Len(ran) : ran[k] = k
    /\ dpc \in {"running", "report"} => Len(ran) = dT /\ numThreads = dT
    /\ Len(rows) = (IF dpc \in {"running", "report"} THEN Len(ran) - 1
                    ELSE Len(ran))
    /\ dpc = "done" => Len(ran) = omp_get_num_procs

\* C9 witness: the sweep has ended after the runs for 1, 2 and 3 workers.
C9_Witness ==
    /\ dpc = "done"
    /\ ran = << 1, 2, 3 >>
    /\ Len(rows) = 3

\* C10: the baseline is the time of the first run and stays so, the speedup
\* of every row is the baseline over the row's own time, and the first row's
\* speedup is exactly 1.
C10_Baseline ==
    Len(rows) >= 1 =>
        /\ T1 = rows[1].time
        /\ \A k \in 1 .. Len(rows) :
              rows[k].accel[1] * rows[k].time = rows[k].accel[2] * rows[1].time
        /\ rows[1].accel = << 1, 1 >>

\* C10 witness: the first run took 2 ticks and the second 1: a speedup of 2.
C10_Witness ==
    /\ Len(rows) >= 2
    /\ rows[1].time = 2 /\ rows[2].time = 1
    /\ rows[2].accel = << 2, 1 >>
    /\ T1 = 2

\* The worker count the current run was entered with.
EnteredWith == ran[Len(ran)]

\* C7: a run entered with the worker count 0 is rejected before any worker
\* starts: no worker is started, no loop body runs, no slot is accessed
\* outside the (empty) buffer, and the run does not return a result as a
\* successful run does.
C7_ZeroRejected ==
    (dpc \in {"running", "report"} /\ EnteredWith = 0) =>
        /\ \A w \in Workers : started[w] = 0
        /\ \A i \in DOMAIN visits : visits[i] = 0
        /\ ~wild
        /\ dpc # "report"

\* C8: when the allocation of the slot buffer fails, nothing is accessed
\* through the null pointer and the run does not return a result.
C8_AllocFailureFatal ==
    allocFailed => (~wild /\ dpc # "report")

\* The cache lines the double of slot t lies in.
LinesOf(t) ==
    {SlotAddr(t) \div CACHE_LINE, (SlotAddr(t) + SizeofDouble - 1) \div CACHE_LINE}

\* C11: in the padded strategies the address of every slot of the buffer is a
\* multiple of the cache-line size, and no two slots lie in the same cache
\* line.
C11_PaddedSlots ==
    (I \in {"ArrAlign", "PS"} /\ base # 0) =>
        /\ \A t \in 0 .. (Len(accum) - 1) : SlotAddr(t) % CACHE_LINE = 0
        /\ \A t, u \in 0 .. (Len(accum) - 1) :
              t # u => LinesOf(t) \cap LinesOf(u) = {}

\* C11 witness: integrateArrAlign holds three slots at 128, 192 and 256.
C11_Witness ==
    /\ I = "ArrAlign" /\ base = 128 /\ Len(accum) = 3
    /\ SlotAddr(0) = 128 /\ SlotAddr(1) = 192 /\ SlotAddr(2) = 256

\* C12: under fair scheduling every call of a strategy returns, every worker
\* that has started finishes, and every worker waiting for the lock gets it
\* and leaves the critical section.
C12_EveryCallReturns ==
    /\ (dpc = "running") ~> (dpc = "report")
    /\ \A w \in Workers : (wpc[w] = "loop") ~> (wpc[w] = "done")
    /\ \A w \in Workers : (wpc[w] = "lock") ~> (wpc[w] = "done" /\ mtx = {})

\* C12 witness: the sweep of integrateCrit has returned from its last run, the
\* one with three workers that took the lock in turn.
C12_Witness ==
    /\ I = "Crit" /\ dpc = "done" /\ team = 3 /\ STEPS = 4
    /\ \A w \in Team : wpc[w] = "done"
    /\ mtx = {}
    /\ Len(rows) = 3

\* The worker ids that have been started in the current run.
StartedIds == {w \in Workers : started[w] >= 1}

\* C13: once a run's T is set, every worker that runs has an id below T; in
\* the parallel-region strategies T is the size of the team and the team's
\* ids are exactly 0..T-1, and in the thread strategies the ids started by
\* the end of the spawn phase are exactly 0..T-1.
C13_StrideIsWorkerCount ==
    (dpc = "running" /\ T # Uninit) =>
        /\ \A w \in StartedIds : w < T
        /\ \A w \in Workers : wpc[w] \in {"loop", "lock", "add"} => w < T
        /\ I \in {"Crit", "Arr", "ArrAlign"} =>
              T = team /\ StartedIds = 0 .. (T - 1)
        /\ (I \in ThreadStrategies /\ mpc \in {"join", "readback"}) =>
              StartedIds = 0 .. (T - 1)

\* C13 witness: the three members of integrateArr's team are in their loops
\* with T = 3.
C13_Witness ==
    /\ I = "Arr" /\ dpc = "running" /\ T = 3 /\ team = 3
    /\ \A w \in 0 .. 2 : wpc[w] = "loop" /\ started[w] = 1

\* C14: in integrateArr and integrateArrAlign no member is in or past its
\* loop before the single region has set T and allocated the zeroed buffer of
\* T slots; the buffer is all zero until the first member leaves the barrier;
\* and once the single region has run, no later step of the run changes T or
\* replaces the buffer (they are written once, by the member that executed
\* the single region).
C14_SingleBeforeLoops ==
    /\ [] ( (I \in {"Arr", "ArrAlign"} /\ dpc = "running") =>
              /\ (\E w \in Workers : wpc[w] \in {"loop", "done"}) =>
                    /\ singleDone
                    /\ T = team
                    /\ Len(accum) = T
                    /\ base # 0
              /\ (singleDone /\ \A w \in Team : wpc[w] \in {"single", "barrier"}) =>
                    \A k \in 1 .. Len(accum) : accum[k] = 0
              /\ ~singleDone => (T = Uninit /\ accum = << >>) )
    /\ [][ (I \in {"Arr", "ArrAlign"} /\ dpc = "running" /\ singleDone
               /\ mpc' # "idle") =>
              /\ singleDone'
              /\ T' = T
              /\ base' = base
              /\ DOMAIN accum' = DOMAIN accum ]_vars

\* C14 witness: in integrateArrAlign with two members the single region has
\* run, one member has added its first sample to its slot and the other has
\* not yet left the barrier.
C14_Witness ==
    /\ I = "ArrAlign" /\ dpc = "running" /\ team = 2 /\ T = 2 /\ singleDone
    /\ \E w \in 0 .. 1 :
          /\ wpc[w] = "loop" /\ wcount[w] = 1 /\ accum[w + 1] > 0
          /\ wpc[1 - w] = "barrier" /\ accum[2 - w] = 0

\* The quotient of n by t rounded up.
CeilDiv(n, t) == (n + t - 1) \div t

\* C15: in the strategies with the strided loop, when all T workers have
\* finished, each worker has made floor(STEPS/T) or ceil(STEPS/T) iterations,
\* the counts of any two workers differ by at most one, and worker t's count
\* is the number of indices t, t+T, t+2T, ... below STEPS.
C15_BalancedCounts ==
    (I # "Reduction" /\ dpc = "running" /\ team >= 1 /\ AllWorkersDone) =>
        /\ \A w \in Team : wcount[w] \in {STEPS \div T, CeilDiv(STEPS, T)}
        /\ \A v, w \in Team : wcount[v] - wcount[w] <= 1
        /\ \A w \in Team :
              wcount[w] = Cardinality({i \in 0 .. (STEPS - 1) : i % T = w})

\* C15 witness: four samples shared by three workers of integrateMutex:
\* worker 0 took two of them, workers 1 and 2 one each.
C15_Witness ==
    /\ I = "Mutex" /\ dpc = "running" /\ T = 3 /\ STEPS = 4
    /\ AllWorkersDone
    /\ wcount[0] = 2 /\ wcount[1] = 1 /\ wcount[2] = 1

\* C16: in integrateArr, integrateArrAlign and integratePS, a step of the
\* parallel phase that changes slot t is an iteration of worker t's loop, it
\* is the only worker that moves in that step, and the step leaves every
\* other slot unchanged.
C16_OwnSlotOnly ==
    [][ (I \in SlotStrategies /\ dpc = "running"
            /\ DOMAIN accum' = DOMAIN accum) =>
          \A k \in DOMAIN accum :
             accum'[k] # accum[k] =>
                /\ wpc[k - 1] = "loop"
                /\ wcount'[k - 1] = wcount[k - 1] + 1
                /\ \A v \in Workers \ {k - 1} : wcount'[v] = wcount[v]
                /\ \A j \in DOMAIN accum \ {k} : accum'[j] = accum[j] ]_vars

\* C16 witness: in integratePS with two workers both have written, each into
\* its own slot, while worker 1 is still in its loop.
C16_Witness ==
    /\ I = "PS" /\ dpc = "running" /\ T = 2 /\ Len(accum) = 2
    /\ wcount[0] >= 1 /\ wcount[1] >= 1
    /\ accum[1] > 0 /\ accum[2] > 0
    /\ wpc[1] = "loop"

\* C18: in FibonacciNew a call that has returned had both its child tasks
\* completed and x1, x2 written by them when it read them, and every call
\* FibonacciNew(n), the outermost included, returns Fibonacci(n), whatever
\* the order in which the tasks run.
C18_FibonacciNewIsFibonacci ==
    /\ \A p \in DOMAIN ftask :
          (ftask[p].pc = "done" /\ ftask[p].n > 2) =>
              /\ ChildrenDone(p)
              /\ ftask[p].x1 = Fibonacci(ftask[p].n - 1)
              /\ ftask[p].x2 = Fibonacci(ftask[p].n - 2)
              /\ p # RootCall =>
                    Fibonacci(ftask[p].n) \in
                        {ftask[Parent(p)].x1, ftask[Parent(p)].x2}
    /\ (DOMAIN ftask # {} /\ ftask[RootCall].pc = "done") =>
          fresult = Fibonacci(fn)
    /\ (DOMAIN ftask = {} /\ fn # 0) => fresult = Fibonacci(fn)

\* C18 witness: the outermost call FibonacciNew(5) has read x1 = 3 and
\* x2 = 2 after its taskwait and returned 5.
C18_Witness ==
    /\ fn = 5 /\ fresult = 5
    /\ DOMAIN ftask # {}
    /\ ftask[RootCall].pc = "done"
    /\ ftask[RootCall].x1 = 3 /\ ftask[RootCall].x2 = 2

\* C19: every element of acc that a call of getB reads or writes lies inside
\* the storage the call allocated for acc.
C19_AccInBounds ==
    \A size \in getBCalls : \A i \in getBAccessed(size) : i < AccAlloc

\* C17: randomize_arr_fs is not killed, every element it has stored is the
\* element randomize_arr_single stores at that index, and when it has
\* returned V and the mean are those of randomize_arr_single.
C17_SameAsSingle ==
    /\ rmain # "killed"
    /\ \A i \in DOMAIN rV :
          rV[i] # Uninit => rV[i] = randomize_arr_single(rn).V[i]
    /\ rmain = "returned" =>
          /\ rV = randomize_arr_single(rn).V
          /\ rret = randomize_arr_single(rn).ret

====
